---- MODULE Spec2Model ----
(***************************************************************************)
(* Stock-broking portfolio backend (Express handlers over MySQL).          *)
(*                                                                         *)
(* The store is the three tables of run_setup.sql; every db.query of a     *)
(* handler is one atomic statement of the store, and the handlers of       *)
(* different requests interleave at their awaits.  A statement may fail    *)
(* (the handler's catch answers 500); the schema's foreign keys, declared  *)
(* without ON DELETE CASCADE, make the store refuse an INSERT of a row     *)
(* whose parent is missing and a DELETE of a parent that still has rows.   *)
(*                                                                         *)
(* Decimal numbers are integers counted in units of 10^-4 (quantity,       *)
(* price: DECIMAL(.,4)) and of 10^-2 (total_amount: DECIMAL(15,2)).  A     *)
(* JSON value that may be absent is a sequence: <<>> absent, <<v>> given.  *)
(***************************************************************************)
EXTENDS Integers, Sequences, FiniteSets, TLC

\* ------------------------------------------------------------------ bounds
\* Request slots: the number of requests that can be in flight together.
MaxProcs == 2
\* Requests accepted in one behaviour of the concurrent specification.
MaxRequests == 2
\* Requests accepted in one behaviour of the sequential trading specification.
MaxTradeRequests == 2
\* Requests accepted in one behaviour of the sequential maintenance specification.
MaxCrudRequests == 2

\* ------------------------------------------------------- program constants
\* Fractional digits of trade_log.quantity and trade_log.price.
PriceScale == 4
\* Fractional digits of trade_log.total_amount.
AmountScale == 2

VARIABLES
    instruments,   \* table instruments: id -> [symbol, name, type, current_price]
    goals,         \* table goals: id -> [name, target_amount]
    trade_log,     \* table trade_log: a set of rows
    nextTradeId,   \* AUTO_INCREMENT counter of trade_log
    nextInstrumentId,  \* AUTO_INCREMENT counter of instruments
    nextGoalId,    \* AUTO_INCREMENT counter of goals
    pc,            \* per request slot: the statement its handler awaits
    req,           \* per request slot: the request being served (or last served)
    loc,           \* per request slot: the handler's locals and what it has done
    res,           \* per request slot: the response sent
    started        \* number of requests accepted so far

vars == <<instruments, goals, trade_log, nextTradeId, nextInstrumentId, nextGoalId,
          pc, req, loc, res, started>>

Procs == 1..MaxProcs

\* ---------------------------------------------------------------- helpers
RECURSIVE Pow10(_)
Pow10(n) == IF n = 0 THEN 1 ELSE 10 * Pow10(n - 1)

\* JavaScript truthiness of a JSON number that may be absent: undefined,
\* null and 0 are falsy.
Truthy(x) == x # <<>> /\ x[1] # 0

\* quantity * price as the handler computes it, from operands in units of
\* 10^-PriceScale: the product, in units of 10^-(2*PriceScale).
Product(quantity, price) == quantity[1] * price[1]

\* 10^-AmountScale in units of 10^-(2*PriceScale).
AmountUnit == Pow10(2 * PriceScale - AmountScale)

\* A column that truncated instead of rounding.
StoreAmountTruncating(x) == x \div AmountUnit

\* What the DECIMAL(15,2) column keeps of a non-negative product given in
\* units of 10^-(2*PriceScale): MySQL rounds half away from zero to
\* AmountScale fractional digits.  The result is in units of 10^-AmountScale.
StoreAmount(x) == (x + AmountUnit \div 2) \div AmountUnit

\* Rows of trade_log that reference an instrument / a goal.
LogsOfInstrument(id) == {r \in trade_log : r.instrument_id = id}
LogsOfGoal(id) == {r \in trade_log : r.goal_id = <<id>>}

\* A trade_log without its foreign keys.
ForeignKeysHoldNoKey(instrument_id, goal_id) == TRUE

\* FOREIGN KEY (instrument_id) REFERENCES instruments(id),
\* FOREIGN KEY (goal_id) REFERENCES goals(id): what an INSERT must satisfy.
ForeignKeysHold(instrument_id, goal_id) ==
    /\ instrument_id \in DOMAIN instruments
    /\ goal_id # <<>> => goal_id[1] \in DOMAIN goals

\* The same keys, seen from the parent: a parent row with children cannot be
\* deleted (no ON DELETE action is declared, so the default RESTRICT applies).
\* A schema without the key on instrument_id.
InstrumentDeletableNoKey(id) == TRUE

InstrumentDeletable(id) == LogsOfInstrument(id) = {}
GoalDeletable(id) == LogsOfGoal(id) = {}

\* GET /instruments/:id: the status it answers in the current store.
GetInstrument(id) == IF id \in DOMAIN instruments THEN 200 ELSE 404

\* A function without one key.
Without(f, k) == [x \in DOMAIN f \ {k} |-> f[x]]

\* ------------------------------------------------------------- requests
NoReq == [op |-> "none", id |-> 0, quantity |-> <<>>, price |-> <<>>,
          goal_id |-> <<>>, cascade |-> "absent",
          symbol |-> "", name |-> "", type |-> "", current_price |-> <<>>,
          target_amount |-> <<>>]
NoLoc == [count |-> 0, insertId |-> 0, deleted |-> {}, startRefs |-> 0,
          startExists |-> FALSE]
NoRes == [status |-> 0, error |-> "", body |-> <<>>]

Idle(p) == pc[p] \in {"idle", "done"}

\* The response ends the request.
Respond(p, status, error, body) ==
    /\ res' = [res EXCEPT ![p] = [status |-> status, error |-> error, body |-> body]]
    /\ pc' = [pc EXCEPT ![p] = "done"]

\* The request's inputs, as the specifications draw them.
TradeOp(tt) == IF tt = "BUY" THEN "buy" ELSE "sell"

\* ------------------------------------------------------------------ Init
\* The store after run_setup.sql, cut down to its first two instruments, its
\* first goal and its first trade.
Init ==
    /\ instruments = (1 :> [symbol |-> "RELIANCE", name |-> "Reliance Industries Ltd",
                            type |-> "STOCK", current_price |-> 24505000]
                   @@ 2 :> [symbol |-> "TCS", name |-> "Tata Consultancy Services",
                            type |-> "STOCK", current_price |-> 32507500])
    /\ goals = (1 :> [name |-> "Retirement Fund", target_amount |-> 500000000])
    /\ trade_log = {[id |-> 1, instrument_id |-> 1, goal_id |-> <<1>>,
                     transaction_type |-> "BUY", quantity |-> 100000,
                     price |-> 24000000, total_amount |-> 2400000]}
    /\ nextTradeId = 2
    /\ nextInstrumentId = 3
    /\ nextGoalId = 2
    /\ pc = [p \in Procs |-> "idle"]
    /\ req = [p \in Procs |-> NoReq]
    /\ loc = [p \in Procs |-> NoLoc]
    /\ res = [p \in Procs |-> NoRes]
    /\ started = 0

\* ------------------------------------------------- POST /instruments/:id/buy|sell
\* A handler without the sign check.
NotPositiveUnchecked(quantity, price) == FALSE

\* if (quantity <= 0 || price <= 0)
NotPositive(quantity, price) == quantity[1] <= 0 \/ price[1] <= 0

\* The request arrives and the handler runs to its first await: the two
\* checks of quantity and price.
TradeBegin(p, tt, id, quantity, price, goal_id) ==
    /\ Idle(p)
    /\ started' = started + 1
    /\ req' = [req EXCEPT ![p] = [NoReq EXCEPT !.op = TradeOp(tt), !.id = id,
                                               !.quantity = quantity, !.price = price,
                                               !.goal_id = goal_id]]
    /\ loc' = [loc EXCEPT ![p] = [NoLoc EXCEPT !.startExists = id \in DOMAIN instruments]]
    /\ IF ~Truthy(quantity) \/ ~Truthy(price)
       THEN Respond(p, 400, "quantity and price are required", <<>>)
       ELSE IF NotPositive(quantity, price)
       THEN Respond(p, 400, "quantity and price must be positive", <<>>)
       ELSE /\ pc' = [pc EXCEPT ![p] = "selectInstrument"]
            /\ res' = [res EXCEPT ![p] = NoRes]
    /\ UNCHANGED <<nextInstrumentId, nextGoalId, instruments, goals, trade_log, nextTradeId>>

\* A handler that took any answer of the lookup for a found instrument.
InstrumentMissingUnchecked(id) == FALSE

\* if (instrument.length === 0)
InstrumentMissing(id) == id \notin DOMAIN instruments

\* SELECT id, symbol, name FROM instruments WHERE id = ?
TradeSelectInstrument(p) ==
    /\ pc[p] = "selectInstrument"
    /\ IF InstrumentMissing(req[p].id)
       THEN Respond(p, 404, "Instrument not found", <<>>)
       ELSE /\ pc' = [pc EXCEPT ![p] =
                        IF Truthy(req[p].goal_id) THEN "selectGoal" ELSE "insert"]
            /\ UNCHANGED res
    /\ UNCHANGED <<nextInstrumentId, nextGoalId, instruments, goals, trade_log, nextTradeId, req, loc, started>>

\* SELECT id FROM goals WHERE id = ?   (only under  if (goal_id))
TradeSelectGoal(p) ==
    /\ pc[p] = "selectGoal"
    /\ IF req[p].goal_id[1] \notin DOMAIN goals
       THEN Respond(p, 400, "Goal not found", <<>>)
       ELSE /\ pc' = [pc EXCEPT ![p] = "insert"]
            /\ UNCHANGED res
    /\ UNCHANGED <<nextInstrumentId, nextGoalId, instruments, goals, trade_log, nextTradeId, req, loc, started>>

\* The row the handler inserts: [id, goal_id || null, kind, quantity, price,
\* total_amount], as the columns keep it.
TradeRow(p, tt, insertId) ==
    [id |-> insertId,
     instrument_id |-> req[p].id,
     goal_id |-> IF Truthy(req[p].goal_id) THEN req[p].goal_id ELSE <<>>,
     transaction_type |-> tt,
     quantity |-> req[p].quantity[1],
     price |-> req[p].price[1],
     total_amount |-> StoreAmount(Product(req[p].quantity, req[p].price))]

\* The quantity of an instrument bought less the quantity sold, over the
\* stored entries: a figure no handler computes.
RECURSIVE NetQuantity(_)
NetQuantity(S) ==
    IF S = {} THEN 0
    ELSE LET r == CHOOSE x \in S : TRUE
         IN  (IF r.transaction_type = "BUY" THEN r.quantity ELSE -r.quantity)
                + NetQuantity(S \ {r})
Held(id) == NetQuantity(LogsOfInstrument(id))

\* A sell handler that refused to sell more than is held.
TradeInsertCheckingHoldings(p, tt) ==
    /\ pc[p] = "insert"
    /\ req[p].op = TradeOp(tt)
    /\ LET row == TradeRow(p, tt, nextTradeId)
       IN IF tt = "SELL" /\ Held(req[p].id) < req[p].quantity[1]
          THEN /\ Respond(p, 400, "Insufficient holdings", <<>>)
               /\ UNCHANGED <<trade_log, nextTradeId, loc>>
          ELSE IF ForeignKeysHold(row.instrument_id, row.goal_id)
          THEN /\ trade_log' = trade_log \cup {row}
               /\ nextTradeId' = nextTradeId + 1
               /\ loc' = [loc EXCEPT ![p].insertId = nextTradeId]
               /\ pc' = [pc EXCEPT ![p] = "reread"]
               /\ UNCHANGED res
          ELSE /\ Respond(p, 500, "ER_NO_REFERENCED_ROW", <<>>)
               /\ UNCHANGED <<trade_log, nextTradeId, loc>>
    /\ UNCHANGED <<nextInstrumentId, nextGoalId, instruments, goals, req, started>>

\* INSERT INTO trade_log (...) VALUES (...)
TradeInsert(p, tt) ==
    /\ pc[p] = "insert"
    /\ req[p].op = TradeOp(tt)
    /\ LET row == TradeRow(p, tt, nextTradeId)
       IN IF ForeignKeysHold(row.instrument_id, row.goal_id)
          THEN /\ trade_log' = trade_log \cup {row}
               /\ nextTradeId' = nextTradeId + 1
               /\ loc' = [loc EXCEPT ![p].insertId = nextTradeId]
               /\ pc' = [pc EXCEPT ![p] = "reread"]
               /\ UNCHANGED res
          ELSE /\ Respond(p, 500, "ER_NO_REFERENCED_ROW", <<>>)
               /\ UNCHANGED <<trade_log, nextTradeId, loc>>
    /\ UNCHANGED <<nextInstrumentId, nextGoalId, instruments, goals, req, started>>

\* SELECT tl.*, i.symbol, i.name, i.type, g.name FROM trade_log tl
\* LEFT JOIN instruments i ... LEFT JOIN goals g ...: the row with the display
\* fields of its instrument and goal, each absent when the join finds no row.
TradeProjection(r) ==
    LET i == r.instrument_id
        g == r.goal_id
    IN [id |-> r.id, instrument_id |-> r.instrument_id, goal_id |-> r.goal_id,
        transaction_type |-> r.transaction_type, quantity |-> r.quantity,
        price |-> r.price, total_amount |-> r.total_amount,
        instrument_symbol |-> IF i \in DOMAIN instruments THEN <<instruments[i].symbol>> ELSE <<>>,
        instrument_name |-> IF i \in DOMAIN instruments THEN <<instruments[i].name>> ELSE <<>>,
        instrument_type |-> IF i \in DOMAIN instruments THEN <<instruments[i].type>> ELSE <<>>,
        goal_name |-> IF g # <<>> /\ g[1] \in DOMAIN goals THEN <<goals[g[1]].name>> ELSE <<>>]

\* SELECT tl.*, ... FROM trade_log tl LEFT JOIN ... WHERE tl.id = ?
\* and res.status(201).json(tradeLog[0]): the body is the row read, or nothing
\* when no row has that id any more.
TradeReread(p) ==
    /\ pc[p] = "reread"
    /\ LET tradeLog == {r \in trade_log : r.id = loc[p].insertId}
       IN Respond(p, 201, "", IF tradeLog = {} THEN <<>>
                              ELSE <<TradeProjection(CHOOSE r \in tradeLog : TRUE)>>)
    /\ UNCHANGED <<nextInstrumentId, nextGoalId, instruments, goals, trade_log, nextTradeId, req, loc, started>>

\* ------------------------------------------------ DELETE /instruments/:id
\* The request arrives; the handler reads id and cascade and awaits its count.
DeleteInstrumentBegin(p, id, cascade) ==
    /\ Idle(p)
    /\ started' = started + 1
    /\ req' = [req EXCEPT ![p] = [NoReq EXCEPT !.op = "deleteInstrument", !.id = id,
                                               !.cascade = cascade]]
    /\ loc' = [loc EXCEPT ![p] = [NoLoc EXCEPT
                                    !.startRefs = Cardinality(LogsOfInstrument(id)),
                                    !.startExists = id \in DOMAIN instruments]]
    /\ pc' = [pc EXCEPT ![p] = "countInstrumentLogs"]
    /\ res' = [res EXCEPT ![p] = NoRes]
    /\ UNCHANGED <<nextInstrumentId, nextGoalId, instruments, goals, trade_log, nextTradeId>>

\* A handler that took any cascade parameter for a request to cascade.
CascadeRequestedTruthy(cascade) == cascade # "absent"

\* if (cascade === 'true')
CascadeRequested(cascade) == cascade = "true"

\* A handler that compared the count with >= instead of >.
HasTradeLogsOffByOne(count) == count >= 0

\* if (tradeLogs[0].count > 0)   of the instrument's handler
HasTradeLogs(count) == count > 0

\* SELECT COUNT(*) as count FROM trade_log WHERE instrument_id = ?
\* and the branch on the count and on the cascade flag.
DeleteInstrumentCount(p) ==
    /\ pc[p] = "countInstrumentLogs"
    /\ LET count == Cardinality(LogsOfInstrument(req[p].id))
       IN /\ loc' = [loc EXCEPT ![p].count = count]
          /\ IF HasTradeLogs(count)
             THEN IF CascadeRequested(req[p].cascade)
                  THEN /\ pc' = [pc EXCEPT ![p] = "deleteLogs"]
                       /\ UNCHANGED res
                  ELSE Respond(p, 400, "Cannot delete instrument with existing trade history", <<>>)
             ELSE /\ pc' = [pc EXCEPT ![p] = "deleteInstrument"]
                  /\ UNCHANGED res
    /\ UNCHANGED <<nextInstrumentId, nextGoalId, instruments, goals, trade_log, nextTradeId, req, started>>

\* A DELETE FROM trade_log that lost its WHERE clause.
DeleteInstrumentLogsAll(p) ==
    /\ pc[p] = "deleteLogs"
    /\ trade_log' = {}
    /\ loc' = [loc EXCEPT ![p].deleted = {r.id : r \in trade_log}]
    /\ pc' = [pc EXCEPT ![p] = "deleteInstrument"]
    /\ UNCHANGED <<nextInstrumentId, nextGoalId, instruments, goals, nextTradeId, req, res, started>>

\* DELETE FROM trade_log WHERE instrument_id = ?
DeleteInstrumentLogs(p) ==
    /\ pc[p] = "deleteLogs"
    /\ trade_log' = trade_log \ LogsOfInstrument(req[p].id)
    /\ loc' = [loc EXCEPT ![p].deleted = {r.id : r \in LogsOfInstrument(req[p].id)}]
    /\ pc' = [pc EXCEPT ![p] = "deleteInstrument"]
    /\ UNCHANGED <<nextInstrumentId, nextGoalId, instruments, goals, nextTradeId, req, res, started>>

\* DELETE FROM instruments WHERE id = ?   (of either branch), the check of
\* affectedRows and the answer.
DeleteInstrumentRow(p) ==
    /\ pc[p] = "deleteInstrument"
    /\ IF ~InstrumentDeletable(req[p].id)
       THEN /\ Respond(p, 500, "ER_ROW_IS_REFERENCED", <<>>)
            /\ UNCHANGED instruments
       ELSE IF req[p].id \notin DOMAIN instruments
       THEN /\ Respond(p, 404, "Instrument not found", <<>>)
            /\ UNCHANGED instruments
       ELSE /\ instruments' = Without(instruments, req[p].id)
            /\ Respond(p, 200, "", <<>>)
    /\ UNCHANGED <<nextInstrumentId, nextGoalId, goals, trade_log, nextTradeId, req, loc, started>>

\* ------------------------------------------------------ DELETE /goals/:id
\* The request arrives; the handler reads id (and nothing else of the request)
\* and awaits its count.
DeleteGoalBegin(p, id, cascade) ==
    /\ Idle(p)
    /\ started' = started + 1
    /\ req' = [req EXCEPT ![p] = [NoReq EXCEPT !.op = "deleteGoal", !.id = id,
                                               !.cascade = cascade]]
    /\ loc' = [loc EXCEPT ![p] = [NoLoc EXCEPT
                                    !.startRefs = Cardinality(LogsOfGoal(id)),
                                    !.startExists = id \in DOMAIN goals]]
    /\ pc' = [pc EXCEPT ![p] = "countGoalLogs"]
    /\ res' = [res EXCEPT ![p] = NoRes]
    /\ UNCHANGED <<nextInstrumentId, nextGoalId, instruments, goals, trade_log, nextTradeId>>

\* A handler that let a single referencing row pass.
GoalHasTradeLogsOffByOne(count) == count > 1

\* if (tradeLogs[0].count > 0)   of the goal's handler
GoalHasTradeLogs(count) == count > 0

\* SELECT COUNT(*) as count FROM trade_log WHERE goal_id = ?
DeleteGoalCount(p) ==
    /\ pc[p] = "countGoalLogs"
    /\ LET count == Cardinality(LogsOfGoal(req[p].id))
       IN /\ loc' = [loc EXCEPT ![p].count = count]
          /\ IF GoalHasTradeLogs(count)
             THEN Respond(p, 400, "Cannot delete goal with existing trade history", <<>>)
             ELSE /\ pc' = [pc EXCEPT ![p] = "deleteGoal"]
                  /\ UNCHANGED res
    /\ UNCHANGED <<nextInstrumentId, nextGoalId, instruments, goals, trade_log, nextTradeId, req, started>>

\* DELETE FROM goals WHERE id = ?, the check of affectedRows and the answer.
DeleteGoalRow(p) ==
    /\ pc[p] = "deleteGoal"
    /\ IF ~GoalDeletable(req[p].id)
       THEN /\ Respond(p, 500, "ER_ROW_IS_REFERENCED", <<>>)
            /\ UNCHANGED goals
       ELSE IF req[p].id \notin DOMAIN goals
       THEN /\ Respond(p, 404, "Goal not found", <<>>)
            /\ UNCHANGED goals
       ELSE /\ goals' = Without(goals, req[p].id)
            /\ Respond(p, 200, "", <<>>)
    /\ UNCHANGED <<nextInstrumentId, nextGoalId, instruments, trade_log, nextTradeId, req, loc, started>>

\* ------------------------------------- POST /instruments, PUT /instruments/:id
\* The variables these handlers leave alone.
TradeSide == <<trade_log, nextTradeId>>

\* ['STOCK', 'MF', 'GOLD']
InstrumentTypes == {"STOCK", "MF", "GOLD"}

\* if (!symbol || !name || !type || !current_price): a string is falsy when
\* absent or empty, a number when absent or 0.
InstrumentFieldsMissing(symbol, name, type, current_price) ==
    symbol = "" \/ name = "" \/ type = "" \/ ~Truthy(current_price)

\* The two checks both handlers make before their first statement: the
\* status and message they answer, or 0 when the request passes.
InstrumentInputError(symbol, name, type, current_price) ==
    IF InstrumentFieldsMissing(symbol, name, type, current_price)
    THEN "All fields are required"
    ELSE IF type \notin InstrumentTypes
    THEN "Type must be STOCK, MF, or GOLD"
    ELSE ""

\* symbol VARCHAR(50) NOT NULL UNIQUE: no other row has the symbol.
SymbolFree(symbol, id) ==
    \A i \in DOMAIN instruments \ {id} : instruments[i].symbol # symbol

\* The row of the request's values.
InstrumentRow(p) ==
    [symbol |-> req[p].symbol, name |-> req[p].name, type |-> req[p].type,
     current_price |-> req[p].current_price[1]]

\* POST /instruments arrives and runs to its first await.
CreateInstrumentBegin(p, symbol, name, type, current_price) ==
    /\ Idle(p)
    /\ started' = started + 1
    /\ req' = [req EXCEPT ![p] = [NoReq EXCEPT !.op = "createInstrument",
                                    !.symbol = symbol, !.name = name, !.type = type,
                                    !.current_price = current_price]]
    /\ loc' = [loc EXCEPT ![p] = NoLoc]
    /\ LET error == InstrumentInputError(symbol, name, type, current_price)
       IN IF error # ""
          THEN Respond(p, 400, error, <<>>)
          ELSE /\ pc' = [pc EXCEPT ![p] = "insertInstrument"]
               /\ res' = [res EXCEPT ![p] = NoRes]
    /\ UNCHANGED <<instruments, goals, nextInstrumentId, nextGoalId, TradeSide>>

\* INSERT INTO instruments (symbol, name, type, current_price) VALUES (?, ?, ?, ?)
CreateInstrumentInsert(p) ==
    /\ pc[p] = "insertInstrument"
    /\ IF SymbolFree(req[p].symbol, 0)
       THEN /\ instruments' = (nextInstrumentId :> InstrumentRow(p)) @@ instruments
            /\ nextInstrumentId' = nextInstrumentId + 1
            /\ loc' = [loc EXCEPT ![p].insertId = nextInstrumentId]
            /\ pc' = [pc EXCEPT ![p] = "rereadInstrument"]
            /\ UNCHANGED res
       ELSE /\ Respond(p, 500, "ER_DUP_ENTRY", <<>>)
            /\ UNCHANGED <<instruments, nextInstrumentId, loc>>
    /\ UNCHANGED <<goals, nextGoalId, TradeSide, req, started>>

\* SELECT * FROM instruments WHERE id = ?  and the answer with row 0 of the
\* result; reading a field of a missing row 0 throws, and the catch answers 500.
InstrumentReread(p, id, status) ==
    /\ IF id \in DOMAIN instruments
       THEN Respond(p, status, "", <<instruments[id]>>)
       ELSE Respond(p, 500, "TypeError", <<>>)
    /\ UNCHANGED <<instruments, goals, nextInstrumentId, nextGoalId, TradeSide,
                   req, loc, started>>

CreateInstrumentReread(p) ==
    /\ pc[p] = "rereadInstrument"
    /\ InstrumentReread(p, loc[p].insertId, 201)

\* PUT /instruments/:id arrives and runs to its first await.
UpdateInstrumentBegin(p, id, symbol, name, type, current_price) ==
    /\ Idle(p)
    /\ started' = started + 1
    /\ req' = [req EXCEPT ![p] = [NoReq EXCEPT !.op = "updateInstrument", !.id = id,
                                    !.symbol = symbol, !.name = name, !.type = type,
                                    !.current_price = current_price]]
    /\ loc' = [loc EXCEPT ![p] = [NoLoc EXCEPT !.startExists = id \in DOMAIN instruments]]
    /\ LET error == InstrumentInputError(symbol, name, type, current_price)
       IN IF error # ""
          THEN Respond(p, 400, error, <<>>)
          ELSE /\ pc' = [pc EXCEPT ![p] = "updateInstrument"]
               /\ res' = [res EXCEPT ![p] = NoRes]
    /\ UNCHANGED <<instruments, goals, nextInstrumentId, nextGoalId, TradeSide>>

\* UPDATE instruments SET symbol = ?, name = ?, type = ?, current_price = ?
\* WHERE id = ?   and the check of affectedRows.
UpdateInstrumentRow(p) ==
    /\ pc[p] = "updateInstrument"
    /\ IF req[p].id \notin DOMAIN instruments
       THEN /\ Respond(p, 404, "Instrument not found", <<>>)
            /\ UNCHANGED instruments
       ELSE IF ~SymbolFree(req[p].symbol, req[p].id)
       THEN /\ Respond(p, 500, "ER_DUP_ENTRY", <<>>)
            /\ UNCHANGED instruments
       ELSE /\ instruments' = [instruments EXCEPT ![req[p].id] = InstrumentRow(p)]
            /\ pc' = [pc EXCEPT ![p] = "rereadUpdatedInstrument"]
            /\ UNCHANGED res
    /\ UNCHANGED <<goals, nextInstrumentId, nextGoalId, TradeSide, req, loc, started>>

UpdateInstrumentReread(p) ==
    /\ pc[p] = "rereadUpdatedInstrument"
    /\ InstrumentReread(p, req[p].id, 200)

\* ------------------------------------------------- POST /goals, PUT /goals/:id
\* if (!name || !target_amount)
GoalFieldsMissing(name, target_amount) == name = "" \/ ~Truthy(target_amount)

\* The row of the request's values.
GoalRow(p) == [name |-> req[p].name, target_amount |-> req[p].target_amount[1]]

\* POST /goals arrives and runs to its first await.
CreateGoalBegin(p, name, target_amount) ==
    /\ Idle(p)
    /\ started' = started + 1
    /\ req' = [req EXCEPT ![p] = [NoReq EXCEPT !.op = "createGoal", !.name = name,
                                    !.target_amount = target_amount]]
    /\ loc' = [loc EXCEPT ![p] = NoLoc]
    /\ IF GoalFieldsMissing(name, target_amount)
       THEN Respond(p, 400, "All fields are required", <<>>)
       ELSE /\ pc' = [pc EXCEPT ![p] = "insertGoal"]
            /\ res' = [res EXCEPT ![p] = NoRes]
    /\ UNCHANGED <<instruments, goals, nextInstrumentId, nextGoalId, TradeSide>>

\* INSERT INTO goals (name, target_amount) VALUES (?, ?)
CreateGoalInsert(p) ==
    /\ pc[p] = "insertGoal"
    /\ goals' = (nextGoalId :> GoalRow(p)) @@ goals
    /\ nextGoalId' = nextGoalId + 1
    /\ loc' = [loc EXCEPT ![p].insertId = nextGoalId]
    /\ pc' = [pc EXCEPT ![p] = "rereadGoal"]
    /\ UNCHANGED <<instruments, nextInstrumentId, TradeSide, req, res, started>>

\* SELECT * FROM goals WHERE id = ?  and the answer with row 0 of the result.
GoalReread(p, id, status) ==
    /\ IF id \in DOMAIN goals
       THEN Respond(p, status, "", <<goals[id]>>)
       ELSE Respond(p, 500, "TypeError", <<>>)
    /\ UNCHANGED <<instruments, goals, nextInstrumentId, nextGoalId, TradeSide,
                   req, loc, started>>

CreateGoalReread(p) ==
    /\ pc[p] = "rereadGoal"
    /\ GoalReread(p, loc[p].insertId, 201)

\* PUT /goals/:id arrives and runs to its first await.
UpdateGoalBegin(p, id, name, target_amount) ==
    /\ Idle(p)
    /\ started' = started + 1
    /\ req' = [req EXCEPT ![p] = [NoReq EXCEPT !.op = "updateGoal", !.id = id,
                                    !.name = name, !.target_amount = target_amount]]
    /\ loc' = [loc EXCEPT ![p] = [NoLoc EXCEPT !.startExists = id \in DOMAIN goals]]
    /\ IF GoalFieldsMissing(name, target_amount)
       THEN Respond(p, 400, "All fields are required", <<>>)
       ELSE /\ pc' = [pc EXCEPT ![p] = "updateGoal"]
            /\ res' = [res EXCEPT ![p] = NoRes]
    /\ UNCHANGED <<instruments, goals, nextInstrumentId, nextGoalId, TradeSide>>

\* UPDATE goals SET name = ?, target_amount = ? WHERE id = ?  and the check
\* of affectedRows.
UpdateGoalRow(p) ==
    /\ pc[p] = "updateGoal"
    /\ IF req[p].id \notin DOMAIN goals
       THEN /\ Respond(p, 404, "Goal not found", <<>>)
            /\ UNCHANGED goals
       ELSE /\ goals' = [goals EXCEPT ![req[p].id] = GoalRow(p)]
            /\ pc' = [pc EXCEPT ![p] = "rereadUpdatedGoal"]
            /\ UNCHANGED res
    /\ UNCHANGED <<instruments, nextInstrumentId, nextGoalId, TradeSide, req, loc, started>>

UpdateGoalReread(p) ==
    /\ pc[p] = "rereadUpdatedGoal"
    /\ GoalReread(p, req[p].id, 200)

\* ------------------------------------------------------ a statement fails
\* Any awaited db.query may reject; every handler's catch answers 500 with
\* the error's message.  The statement that failed has changed nothing.
QueryPcs == {"selectInstrument", "selectGoal", "insert", "reread",
             "countInstrumentLogs", "deleteLogs", "deleteInstrument",
             "countGoalLogs", "deleteGoal",
             "insertInstrument", "rereadInstrument", "updateInstrument",
             "rereadUpdatedInstrument", "insertGoal", "rereadGoal", "updateGoal",
             "rereadUpdatedGoal"}

StoreFail(p) ==
    /\ pc[p] \in QueryPcs
    /\ Respond(p, 500, "StoreError", <<>>)
    /\ UNCHANGED <<nextInstrumentId, nextGoalId, instruments, goals, trade_log, nextTradeId, req, loc, started>>

\* ------------------------------------------------------------ inputs
\* The concurrent specification: every handler of the trading core, on
\* MaxProcs request slots, over valid trades of instruments 1 and 2.
Quantities == {<<15000>>}
Prices == {<<20000>>}
GoalIds == {<<>>, <<1>>}
InstrumentIds == {1, 2}
GoalIdsStored == {1}
Cascades == {"absent", "true", "false"}
TransactionTypes == {"BUY", "SELL"}

Next ==
    \E p \in Procs :
        \/ /\ started < MaxRequests
           /\ \E tt \in TransactionTypes, id \in InstrumentIds, q \in Quantities,
                 pr \in Prices, g \in GoalIds : TradeBegin(p, tt, id, q, pr, g)
        \/ TradeSelectInstrument(p)
        \/ TradeSelectGoal(p)
        \/ \E tt \in TransactionTypes : TradeInsert(p, tt)
        \/ TradeReread(p)
        \/ /\ started < MaxRequests
           /\ \E id \in InstrumentIds, c \in Cascades : DeleteInstrumentBegin(p, id, c)
        \/ DeleteInstrumentCount(p)
        \/ DeleteInstrumentLogs(p)
        \/ DeleteInstrumentRow(p)
        \/ /\ started < MaxRequests
           /\ \E id \in GoalIdsStored, c \in Cascades : DeleteGoalBegin(p, id, c)
        \/ DeleteGoalCount(p)
        \/ DeleteGoalRow(p)
        \/ StoreFail(p)

Spec == Init /\ [][Next]_vars

\* The sequential trading specification: buy and sell requests served one at
\* a time by the first slot, over every shape of quantity, price, goal_id and
\* instrument id the handler tells apart (absent, zero, negative, positive;
\* stored and not stored).  0.5 x 0.01 has three fractional digits.
TradeQuantities == {<<>>, <<0>>, <<-10000>>, <<5000>>, <<100000>>}
TradePrices == {<<>>, <<0>>, <<-100>>, <<100>>, <<20000>>}
TradeGoalIds == {<<>>, <<0>>, <<1>>, <<2>>}
TradeInstrumentIds == {1, 3}

NextTrade ==
    \E p \in {1} :
        \/ /\ started < MaxTradeRequests
           /\ \E tt \in TransactionTypes, id \in TradeInstrumentIds,
                 q \in TradeQuantities, pr \in TradePrices, g \in TradeGoalIds :
                    TradeBegin(p, tt, id, q, pr, g)
        \/ TradeSelectInstrument(p)
        \/ TradeSelectGoal(p)
        \/ \E tt \in TransactionTypes : TradeInsert(p, tt)
        \/ TradeReread(p)
        \/ StoreFail(p)

SpecTrade == Init /\ [][NextTrade]_vars

\* The sequential maintenance specification: create and update requests for
\* instruments and goals, served one at a time by the first slot, over every
\* shape of field the handlers tell apart (absent or empty, zero, negative,
\* positive; a type inside and outside the enumeration; a symbol already
\* stored and a new one; an id stored and not stored).
CrudSymbols == {"", "TCS", "XYZ"}
CrudNames == {"", "XYZ Corp"}
CrudTypes == {"", "STOCK", "MF", "GOLD", "BOND"}
CrudPrices == {<<>>, <<0>>, <<-1000000>>, <<1000000>>}
CrudAmounts == {<<>>, <<0>>, <<-10000>>, <<10000>>}
CrudInstrumentIds == {1, 9}
CrudGoalIds == {1, 9}

NextCrud ==
    \E p \in {1} :
        \/ /\ started < MaxCrudRequests
           /\ \E sy \in CrudSymbols, nm \in CrudNames, ty \in CrudTypes, pr \in CrudPrices :
                    CreateInstrumentBegin(p, sy, nm, ty, pr)
        \/ CreateInstrumentInsert(p)
        \/ CreateInstrumentReread(p)
        \/ /\ started < MaxCrudRequests
           /\ \E id \in CrudInstrumentIds, sy \in CrudSymbols, nm \in CrudNames,
                 ty \in CrudTypes, pr \in CrudPrices :
                    UpdateInstrumentBegin(p, id, sy, nm, ty, pr)
        \/ UpdateInstrumentRow(p)
        \/ UpdateInstrumentReread(p)
        \/ /\ started < MaxCrudRequests
           /\ \E nm \in CrudNames, ta \in CrudAmounts : CreateGoalBegin(p, nm, ta)
        \/ CreateGoalInsert(p)
        \/ CreateGoalReread(p)
        \/ /\ started < MaxCrudRequests
           /\ \E id \in CrudGoalIds, nm \in CrudNames, ta \in CrudAmounts :
                    UpdateGoalBegin(p, id, nm, ta)
        \/ UpdateGoalRow(p)
        \/ UpdateGoalReread(p)
        \/ StoreFail(p)

SpecCrud == Init /\ [][NextCrud]_vars

\* ================================================================ claims
IsTrade(p) == req[p].op \in {"buy", "sell"}
KindOf(p) == IF req[p].op = "buy" THEN "BUY" ELSE "SELL"
FailedInStore(r) == r.error = "StoreError"

\* The rows of trade_log the request of slot p has inserted.
RowsOf(p) == {r \in trade_log : r.id = loc[p].insertId}

\* quantity > 0 and price > 0, against a stored instrument, with no goal or a
\* stored goal.
ValidTrade(p) ==
    /\ IsTrade(p)
    /\ req[p].quantity # <<>> /\ req[p].quantity[1] > 0
    /\ req[p].price # <<>> /\ req[p].price[1] > 0
    /\ req[p].id \in DOMAIN instruments
    /\ req[p].goal_id = <<>> \/ req[p].goal_id[1] \in DOMAIN goals

\* The row carries the request's kind, instrument and goal.
RowMatches(r, p) ==
    /\ r.transaction_type = KindOf(p)
    /\ r.instrument_id = req[p].id
    /\ r.goal_id = req[p].goal_id

\* total is quantity x price rounded half up to AmountScale fractional digits.
RoundedTotal(total, quantity, price) ==
    LET d == 2 * (total * AmountUnit - quantity[1] * price[1])
    IN  -AmountUnit < d /\ d <= AmountUnit

InvalidNumbers(p) ==
    /\ IsTrade(p)
    /\ \/ ~Truthy(req[p].quantity) \/ ~Truthy(req[p].price)
       \/ req[p].quantity[1] <= 0 \/ req[p].price[1] <= 0

\* C2: a buy or sell whose quantity or price is missing or <= 0 is answered
\* 400 by the step that accepts it, which leaves trade_log unchanged and ends
\* the request: it never issues a statement and has inserted no entry.
C2_InvalidRejected ==
    /\ [](\A p \in Procs : InvalidNumbers(p) =>
            pc[p] = "done" /\ res[p].status = 400 /\ loc[p].insertId = 0)
    /\ [][\A p \in Procs : (started' # started /\ InvalidNumbers(p)') =>
            trade_log' = trade_log /\ nextTradeId' = nextTradeId]_vars

\* C2's case: a request with a negative quantity or price (one the first
\* check lets through) has been answered.
C2_Witness ==
    \E p \in Procs :
        /\ InvalidNumbers(p) /\ pc[p] = "done"
        /\ Truthy(req[p].quantity) /\ Truthy(req[p].price)

\* C3: when the lookup of a buy or sell finds no instrument of the request's
\* id, the request ends there with 404 "Instrument not found" and trade_log
\* unchanged; a request answered 404 has inserted no entry.  (A lookup that
\* fails in the store is answered 500, and inserts nothing either.)
C3_UnknownInstrument ==
    /\ [](\A p \in Procs : IsTrade(p) /\ res[p].status = 404 =>
            pc[p] = "done" /\ loc[p].insertId = 0)
    /\ [][\A p \in Procs :
            (pc[p] = "selectInstrument" /\ pc'[p] # "selectInstrument"
               /\ req[p].id \notin DOMAIN instruments) =>
                /\ pc'[p] = "done"
                /\ trade_log' = trade_log
                /\ ~FailedInStore(res'[p]) =>
                      /\ res'[p].status = 404
                      /\ res'[p].error = "Instrument not found"
       ]_vars

\* C3's case: a buy or sell of an instrument that is not stored was answered 404.
C3_Witness ==
    \E p \in Procs :
        /\ IsTrade(p) /\ pc[p] = "done" /\ res[p].status = 404
        /\ req[p].id \notin DOMAIN instruments

\* C4, as stated: a buy or sell with valid numbers for a stored instrument
\* that supplies a non-null goal_id matching no stored goal (0 included), and
\* that the store did not fail, is answered 400 "Goal not found" and inserts
\* no entry.
C4_UnknownGoalRejected ==
    \A p \in Procs :
        (/\ IsTrade(p) /\ ~InvalidNumbers(p)
         /\ req[p].id \in DOMAIN instruments
         /\ req[p].goal_id # <<>> /\ req[p].goal_id[1] \notin DOMAIN goals
         /\ ~FailedInStore(res[p])) =>
            /\ loc[p].insertId = 0
            /\ pc[p] = "done" =>
                  res[p].status = 400 /\ res[p].error = "Goal not found"

IsDeleteInstrument(p) == req[p].op = "deleteInstrument"
IsDeleteGoal(p) == req[p].op = "deleteGoal"
Store == <<instruments, goals, trade_log, nextTradeId>>

\* C5, as stated: once a delete of an instrument has ended, it has not
\* deleted trade logs and left the instrument stored.
C5_CascadeAllOrNothing ==
    \A p \in Procs :
        IsDeleteInstrument(p) /\ pc[p] = "done" /\ loc[p].deleted # {} =>
            req[p].id \notin DOMAIN instruments

\* C6: after a delete of an instrument that counted at least one referencing
\* entry, was asked to cascade and was answered 200, no entry references the
\* instrument's id and GET /instruments/:id answers 404.
C6_CascadeDeletesAll ==
    \A p \in Procs :
        (/\ IsDeleteInstrument(p) /\ pc[p] = "done"
         /\ loc[p].count > 0 /\ req[p].cascade = "true"
         /\ res[p].status = 200) =>
            /\ LogsOfInstrument(req[p].id) = {}
            /\ GetInstrument(req[p].id) = 404

\* C6's case: a cascading delete that removed entries was answered 200.
C6_Witness ==
    \E p \in Procs :
        /\ IsDeleteInstrument(p) /\ pc[p] = "done"
        /\ loc[p].count > 0 /\ req[p].cascade = "true"
        /\ loc[p].deleted # {} /\ res[p].status = 200

\* C7: when the count of a delete of an instrument finds at least one
\* referencing entry and the request's cascade is not 'true' (absent, or any
\* other value), the request ends there, answered 400, and the step leaves
\* every table unchanged; a delete answered 400 has deleted nothing.  (A count
\* that fails in the store is answered 500, and changes nothing either.)
C7_BlockedDeleteChangesNothing ==
    /\ [](\A p \in Procs : IsDeleteInstrument(p) /\ res[p].status = 400 =>
            pc[p] = "done" /\ loc[p].deleted = {})
    /\ [][\A p \in Procs :
            (/\ IsDeleteInstrument(p)
             /\ pc[p] = "countInstrumentLogs" /\ pc'[p] # "countInstrumentLogs"
             /\ LogsOfInstrument(req[p].id) # {}
             /\ req[p].cascade # "true") =>
                /\ pc'[p] = "done"
                /\ Store' = Store
                /\ ~FailedInStore(res'[p]) => res'[p].status = 400
       ]_vars

\* C7's case: a delete with cascade=false of an instrument with entries was
\* answered 400.
C7_Witness ==
    \E p \in Procs :
        /\ IsDeleteInstrument(p) /\ pc[p] = "done"
        /\ req[p].cascade = "false" /\ loc[p].count > 0
        /\ res[p].status = 400
        /\ LogsOfInstrument(req[p].id) # {}

\* C8, as stated: a delete of an instrument that was stored and had no
\* referencing entry when the request arrived, and that the store did not
\* fail, is answered 200 and the instrument is removed, whatever runs beside it.
C8_UnreferencedDeleteSucceeds ==
    \A p \in Procs :
        (/\ IsDeleteInstrument(p) /\ pc[p] = "done"
         /\ loc[p].startExists /\ loc[p].startRefs = 0
         /\ ~FailedInStore(res[p])) =>
            /\ res[p].status = 200
            /\ req[p].id \notin DOMAIN instruments

\* C8, amended: whatever the cascade flag, a delete whose count finds no
\* referencing entry goes on to its DELETE statement, and that statement,
\* when it runs on an instrument still stored and still unreferenced, removes
\* it and is answered 200.
C8_UnreferencedDeleteWhenUndisturbed ==
    [][\A p \in Procs :
        /\ (/\ IsDeleteInstrument(p)
            /\ pc[p] = "countInstrumentLogs" /\ pc'[p] # "countInstrumentLogs"
            /\ LogsOfInstrument(req[p].id) = {}
            /\ ~FailedInStore(res'[p])) =>
                pc'[p] = "deleteInstrument"
        /\ (/\ IsDeleteInstrument(p)
            /\ pc[p] = "deleteInstrument" /\ pc'[p] # "deleteInstrument"
            /\ req[p].id \in DOMAIN instruments
            /\ LogsOfInstrument(req[p].id) = {}
            /\ ~FailedInStore(res'[p])) =>
                /\ pc'[p] = "done"
                /\ res'[p].status = 200
                /\ req[p].id \notin DOMAIN instruments'
      ]_vars

\* C8's case: a delete without cascade of a stored, unreferenced instrument
\* was answered 200.
C8_Witness ==
    \E p \in Procs :
        /\ IsDeleteInstrument(p) /\ pc[p] = "done"
        /\ loc[p].startExists /\ loc[p].startRefs = 0 /\ loc[p].count = 0
        /\ req[p].cascade # "true"
        /\ res[p].status = 200

\* C9: when the count of a delete of a goal finds at least one referencing
\* entry, the request ends there, answered 400 whatever flag it carries, and
\* the step leaves every table unchanged; and a step removes a goal only when
\* no entry references it.  (A count that fails in the store is answered 500,
\* and changes nothing either.)
C9_ReferencedGoalKept ==
    [][/\ \A p \in Procs :
            (/\ IsDeleteGoal(p)
             /\ pc[p] = "countGoalLogs" /\ pc'[p] # "countGoalLogs"
             /\ LogsOfGoal(req[p].id) # {}) =>
                /\ pc'[p] = "done"
                /\ Store' = Store
                /\ ~FailedInStore(res'[p]) => res'[p].status = 400
       /\ \A g \in DOMAIN goals \ DOMAIN goals' : LogsOfGoal(g) = {}
      ]_vars

\* C9's case: a delete of a goal with entries, carrying cascade=true, was
\* answered 400 and the goal and its entries are stored.
C9_Witness ==
    \E p \in Procs :
        /\ IsDeleteGoal(p) /\ pc[p] = "done"
        /\ req[p].cascade = "true" /\ loc[p].count > 0
        /\ res[p].status = 400
        /\ req[p].id \in DOMAIN goals /\ LogsOfGoal(req[p].id) # {}

\* C10, as stated: a buy or sell that was answered with a failure has left no
\* entry of its own in trade_log.
C10_FailedTradeLeavesNothing ==
    \A p \in Procs :
        IsTrade(p) /\ pc[p] = "done" /\ res[p].status >= 400 => RowsOf(p) = {}

\* C11: in every reachable state, under every interleaving of buy, sell,
\* delete and cascade-delete requests, every stored entry's instrument_id is
\* the id of a stored instrument and its goal_id, when not NULL, the id of a
\* stored goal.
C11_ReferentialIntegrity ==
    \A r \in trade_log :
        /\ r.instrument_id \in DOMAIN instruments
        /\ r.goal_id # <<>> => r.goal_id[1] \in DOMAIN goals

\* C11's case: an instrument or goal was deleted while a buy or sell that had
\* found it was about to insert, and the store refused the insert.
C11_Witness ==
    \E p \in Procs :
        /\ IsTrade(p) /\ pc[p] = "done"
        /\ res[p].error = "ER_NO_REFERENCED_ROW"
        /\ trade_log # {}

\* C12, as stated: every stored instrument has a price > 0 and a type among
\* STOCK, MF and GOLD, create and update having rejected every other request.
C12_InstrumentsValid ==
    \A i \in DOMAIN instruments :
        /\ instruments[i].current_price > 0
        /\ instruments[i].type \in InstrumentTypes

\* C13, as stated: every stored goal has a target amount > 0, create and
\* update having rejected every other request.
C13_GoalsValid ==
    \A g \in DOMAIN goals : goals[g].target_amount > 0

\* C14: the trade log is append-only.  In every step, an entry that was
\* stored is stored unchanged afterwards, unless the step is the DELETE FROM
\* trade_log of a cascading delete of the instrument the entry references,
\* which removes it; and an entry that was not stored before carries a new id
\* and is the row the INSERT of a buy or sell request has just made.
C14_AppendOnly ==
    [][/\ \A r \in trade_log :
            \/ r \in trade_log'
            \/ /\ \A x \in trade_log' : x.id # r.id
               /\ \E p \in Procs :
                    /\ IsDeleteInstrument(p) /\ req[p].cascade = "true"
                    /\ pc[p] = "deleteLogs" /\ pc'[p] # "deleteLogs"
                    /\ req[p].id = r.instrument_id
       /\ \A r \in trade_log' \ trade_log :
            /\ \A x \in trade_log : x.id # r.id
            /\ \E p \in Procs :
                    /\ IsTrade(p) /\ pc[p] = "insert"
                    /\ loc'[p].insertId = r.id
                    /\ r.transaction_type = KindOf(p)
      ]_vars

\* C14's case: a cascading delete has removed the entries of its instrument
\* while an entry that a buy or sell created for another instrument is stored.
C14_Witness ==
    \E p, q \in Procs :
        /\ IsDeleteInstrument(p) /\ loc[p].deleted # {}
        /\ IsTrade(q) /\ RowsOf(q) # {}
        /\ req[q].id # req[p].id

\* The status a trade request must get, read off its quantity, price,
\* instrument id and goal_id and the stored instruments and goals alone:
\* neither its kind nor the entries recorded before enter.
ExpectedTradeStatus(p) ==
    IF InvalidNumbers(p) THEN 400
    ELSE IF req[p].id \notin DOMAIN instruments THEN 404
    ELSE IF Truthy(req[p].goal_id) /\ req[p].goal_id[1] \notin DOMAIN goals THEN 400
    ELSE 201

\* C15: buy and sell are one operation with a kind.  Every buy and every sell
\* that the store did not fail is answered with the status its parameters
\* other than the kind and the stored instruments and goals determine, so a
\* buy and a sell of the same parameters from the same store get the same
\* outcome; answered 201, it has stored exactly one entry, of the request's
\* values and differing between buy and sell in transaction_type only;
\* answered otherwise, none.  In particular no sell is refused for exceeding
\* the quantity held.
C15_KindOnlyDiffers ==
    \A p \in Procs :
        IsTrade(p) /\ pc[p] = "done" /\ ~FailedInStore(res[p]) =>
            /\ res[p].status = ExpectedTradeStatus(p)
            /\ res[p].status # 201 => RowsOf(p) = {}
            /\ res[p].status = 201 =>
                \E r \in trade_log :
                    /\ RowsOf(p) = {r}
                    /\ r.transaction_type = KindOf(p)
                    /\ r.instrument_id = req[p].id
                    /\ r.goal_id = IF Truthy(req[p].goal_id) THEN req[p].goal_id ELSE <<>>
                    /\ r.quantity = req[p].quantity[1]
                    /\ r.price = req[p].price[1]
                    /\ RoundedTotal(r.total_amount, req[p].quantity, req[p].price)

\* C15's case: a sell was answered 201 although it sold more than the stored
\* entries of its instrument had bought.
C15_Witness ==
    \E p \in Procs :
        /\ req[p].op = "sell" /\ pc[p] = "done" /\ res[p].status = 201
        /\ RowsOf(p) # {}
        /\ Held(req[p].id) < 0

\* C16: every 201 of a buy or a sell carries the entry that request inserted,
\* with the display fields of its instrument and goal, whatever deletes of
\* the same instrument ran between the insert and the re-read.
C16_SuccessCarriesEntry ==
    \A p \in Procs :
        IsTrade(p) /\ pc[p] = "done" /\ res[p].status = 201 =>
            /\ res[p].body # <<>>
            /\ res[p].body[1].id = loc[p].insertId
            /\ res[p].body[1].transaction_type = KindOf(p)
            /\ res[p].body[1].instrument_id = req[p].id
            /\ res[p].body[1].instrument_symbol # <<>>
====
